---- MODULE Spec2Model ----
(***************************************************************************)
(* A model of ebrains_dataproxy_sync: the depth-first tree sync of         *)
(* sync/dataproxy.py (sync), its advisory lock and operation log           *)
(* (sync_context) and its retrying upload loop, run by several             *)
(* invocations (separate processes) against one shared remote bucket.      *)
(*                                                                         *)
(* A path is a sequence of components, "/" first when it is absolute.      *)
(* The bucket is a partial function from paths to contents: an object      *)
(* exists iff its path is in the domain.  A log or lock record             *)
(* "{name}/{sub}: {timestamp}: {op}" is [who, op]: the identity and the    *)
(* timestamp together tell one invocation's records from another's.        *)
(*                                                                         *)
(* Every remote call of the main thread is one step, so the calls of       *)
(* different invocations interleave freely.  A future of the pool is       *)
(* "running" from submit until its upload ends, then "ok" or "failed".     *)
(* An upload of a file may fail any number of times.  Of the main          *)
(* thread's own remote calls the fetch of sync.log may fail: it is the     *)
(* call made between the write of the marker and the try block.            *)
(*                                                                         *)
(* hist records, per invocation and directory, the remote calls the        *)
(* invocation has issued and what they found: it is written by the steps   *)
(* and read only by the properties.                                        *)
(*                                                                         *)
(* hash/hash.py is modelled beside it: hash_fn as a recursive operator on  *)
(* a local file system, hash_dir as a process whose steps are its listing  *)
(* of subdirectories, its recursive calls and the writes of its os.walk    *)
(* loop.  A specification runs either sync or hash_dir; the variables of   *)
(* the other keep their initial values.                                    *)
(***************************************************************************)
EXTENDS Integers, Sequences, FiniteSets, TLC

VARIABLES
    invs,            \* the sync invocations (processes) that run
    args,            \* per invocation: path_to_sync, remote_prefix, local_relative_to, force
    localFiles,      \* per local directory: the names of its regular files
    remote,          \* the bucket: path -> content
    stack,           \* per invocation: the call stack of sync, one frame per directory
    pc,              \* per invocation: where its innermost call of sync stands
    raised,          \* per invocation: the exception that left the outermost sync
    log_content,     \* per invocation: sync_context's in-memory log
    remaining_jobs,  \* per invocation: the upload loop's dict, file -> state of its future
    progress,        \* per invocation: tqdm's count
    delete_missing,  \* what the client's delete does to an object that is gone
    hist             \* per invocation and directory: what the invocation has done there

\* hash/hash.py: hash_dir and hash_fn on a local file system
VARIABLES
    fs,              \* the file system: absolute path -> directory or file with content
    cwd,             \* the working directory of the process that calls hash_dir
    directory,       \* the argument of the outermost hash_dir
    listing,         \* the order in which os.listdir and os.walk return names
    clock,           \* time.time(), rounded
    calls,           \* the call stack of hash_dir
    run,             \* the number of the current (or last) outermost call of hash_dir
    outcome,         \* per run: "returned" or the exception that ended it
    writes           \* per run: directory -> the content the run wrote to its md5.hash

hashVars == <<fs, cwd, directory, listing, clock, calls, run, outcome, writes>>

syncVars == <<invs, args, localFiles, remote, stack, pc, raised, log_content,
              remaining_jobs, progress, delete_missing, hist>>

vars == <<invs, args, localFiles, remote, stack, pc, raised, log_content,
          remaining_jobs, progress, delete_missing, hist, hashVars>>

\* what no step of sync changes: the client, the invocations and their
\* arguments, the local tree
fixed == <<delete_missing, invs, args, localFiles, hashVars>>

\* no hash_dir runs
HashIdle ==
    /\ fs = <<>>
    /\ cwd = <<>>
    /\ directory = <<>>
    /\ listing = <<>>
    /\ clock = 0
    /\ calls = <<>>
    /\ run = 0
    /\ outcome = <<>>
    /\ writes = <<>>

(***************************************************************************)
(* Names and bounds                                                        *)
(***************************************************************************)
MD5_HASH_FILE == "md5.hash"
LOG_FILE == "sync.log"
LOCK_FILE == ".lock"
DataFile == "f.dat"
\* a backup of an earlier manifest, as hash_dir leaves it beside md5.hash
BackupFile == "md5.hash.bk.1"
FileNames == {DataFile, MD5_HASH_FILE, BackupFile}

\* local_relative_to=None
NoPath == <<"None">>

\* the longest operation log the bucket holds before the first invocation
MaxOldLog == 1

Inv == {"A", "B"}

\* the local tree: w/root, w/root/a, w/root/b
Base == <<"w">>
Root == Base \o <<"root">>
SubA == Root \o <<"a">>
SubB == Root \o <<"b">>
Dirs == {Root, SubA, SubB}
Prefix == <<"pfx">>

\* the immediate subdirectories of d (os.listdir + is_dir)
Subdirs(d) == {s \in Dirs : Len(s) = Len(d) + 1 /\ SubSeq(s, 1, Len(d)) = d}

(***************************************************************************)
(* pathlib                                                                 *)
(***************************************************************************)
IsAbsolute(p) == Len(p) > 0 /\ p[1] = "/"

\* Path(a, b), a / b: an absolute b replaces a
JoinPath(a, b) == IF IsAbsolute(b) THEN b ELSE a \o b

\* p.relative_to(base), for base a prefix of p
RelativeTo(p, base) == SubSeq(p, Len(base) + 1, Len(p))

\* relative_path of sync for the directory d
RelativePath(i, d) ==
    IF args[i].relto = NoPath THEN d ELSE RelativeTo(d, args[i].relto)

\* the remote directory that receives d's files and manifest
RemoteDir(i, d) == JoinPath(args[i].prefix, RelativePath(i, d))

\* the remote directory sync hands to sync_context
LockDir(i, d) == JoinPath(args[i].prefix, d)

RemoteFile(i, d, f) == JoinPath(RemoteDir(i, d), <<f>>)
LockPath(i, d) == JoinPath(LockDir(i, d), <<LOCK_FILE>>)
LogPath(i, d) == JoinPath(LockDir(i, d), <<LOG_FILE>>)

(***************************************************************************)
(* The bucket                                                              *)
(***************************************************************************)
Exists(p) == p \in DOMAIN remote

\* bucket.upload(content, p)
Put(store, p, c) == [q \in DOMAIN store \cup {p} |-> IF q = p THEN c ELSE store[q]]

\* filehandle.delete()
Delete(store, p) == [q \in DOMAIN store \ {p} |-> store[q]]

\* log_msg_tmpl.format(sub, name, timestamp, op)
Record(i, op) == [who |-> i, op |-> op]

\* the bytes of a local file: the manifest text, or data
LocalContent(d, f) ==
    IF f = MD5_HASH_FILE THEN "M" ELSE IF f = BackupFile THEN "M0" ELSE "data"

(***************************************************************************)
(* The call stack                                                          *)
(***************************************************************************)
Top(i) == stack[i][Len(stack[i])]
Cur(i) == Top(i).dir

Frame(d) == [dir |-> d, todo |-> Subdirs(d)]

NoHist == [cmp |-> "none", chk |-> "none", lockPuts |-> 0, lockDels |-> 0,
           logPuts |-> 0, submitted |-> {}, uploaded |-> {}, retried |-> FALSE,
           result |-> "none"]

\* the current call of sync returns to its caller
Returns(i) ==
    /\ stack' = [stack EXCEPT ![i] = SubSeq(@, 1, Len(@) - 1)]
    /\ pc' = [pc EXCEPT ![i] = IF Len(stack[i]) = 1 THEN "done" ELSE "walk"]
    /\ UNCHANGED raised

\* a walk that goes on after an exception of a subdirectory
RaisesCaught(i, e) == Returns(i)

\* an exception leaves every frame: the recursive calls are made outside any
\* try or with block
Raises(i, e) ==
    /\ stack' = [stack EXCEPT ![i] = <<>>]
    /\ pc' = [pc EXCEPT ![i] = "raised"]
    /\ raised' = [raised EXCEPT ![i] = e]

(***************************************************************************)
(* sync: the walk and the manifest comparison                              *)
(***************************************************************************)
\* a sync that handles its own level before its subdirectories
SubdirsDoneAtOnce(i) == TRUE

\* the for loop over all_dirs has called sync for every subdirectory
SubdirsDone(i) == Top(i).todo = {}

\* for _dir in all_dirs: sync(Path(path_to_sync, _dir), ...), in listing order
Descend(i) ==
    /\ pc[i] = "walk"
    /\ ~SubdirsDone(i)
    /\ \E s \in Top(i).todo :
          stack' = [stack EXCEPT ![i] =
                      Append([@ EXCEPT ![Len(@)].todo = @ \ {s}], Frame(s))]
    /\ UNCHANGED <<fixed, remote, pc, raised, log_content,
                   remaining_jobs, progress, hist>>

\* what the comparison of the local and the remote manifest finds
CompareResult(i, d) ==
    IF args[i].force THEN "forced"
    ELSE IF MD5_HASH_FILE \notin localFiles[d] THEN "nolocal"
    ELSE IF ~Exists(RemoteFile(i, d, MD5_HASH_FILE)) THEN "absent"
    ELSE IF remote[RemoteFile(i, d, MD5_HASH_FILE)] = LocalContent(d, MD5_HASH_FILE)
         THEN "equal"
    ELSE "differ"

\* a sync that uploads whatever the comparison finds
SkipsNever(i, d) == FALSE

\* "hash match! ... skipping": sync returns before it lists the files
Skips(i, d) == CompareResult(i, d) = "equal"

Compare(i) ==
    /\ pc[i] = "walk"
    /\ SubdirsDone(i)
    /\ LET d == Cur(i) IN
         IF Skips(i, d)
         THEN /\ hist' = [hist EXCEPT ![i][d].cmp = CompareResult(i, d),
                                      ![i][d].result = "skipped"]
              /\ Returns(i)
         ELSE /\ hist' = [hist EXCEPT ![i][d].cmp = CompareResult(i, d)]
              /\ pc' = [pc EXCEPT ![i] = "check_lock"]
              /\ UNCHANGED <<stack, raised>>
    /\ UNCHANGED <<fixed, remote, log_content, remaining_jobs,
                   progress>>

(***************************************************************************)
(* sync_context: acquire                                                   *)
(***************************************************************************)
\* a sync_context that ignores the marker it finds
LockBlocksNever(i, d) == FALSE

\* get_file(lock_file) finds the marker and force is not set
LockBlocks(i, d) == Exists(LockPath(i, d)) /\ ~args[i].force

CheckLock(i) ==
    /\ pc[i] = "check_lock"
    /\ LET d == Cur(i)
           saw == IF Exists(LockPath(i, d)) THEN "present" ELSE "absent" IN
         IF LockBlocks(i, d)
         THEN /\ hist' = [hist EXCEPT ![i][d].chk = saw,
                                      ![i][d].result = "SyncLocked"]
              /\ Raises(i, "SyncLocked")
         ELSE /\ hist' = [hist EXCEPT ![i][d].chk = saw]
              /\ pc' = [pc EXCEPT ![i] = "put_lock"]
              /\ UNCHANGED <<stack, raised>>
    /\ UNCHANGED <<fixed, remote, log_content, remaining_jobs,
                   progress>>

\* a sync_context that enters its scope without writing the marker
PutLockSkipped(i) ==
    /\ pc[i] = "put_lock"
    /\ hist' = [hist EXCEPT ![i][Cur(i)].lockPuts = @ + 1]
    /\ pc' = [pc EXCEPT ![i] = "get_log"]
    /\ UNCHANGED <<fixed, remote, stack, raised, log_content,
                   remaining_jobs, progress>>

\* bucket.upload(lockfile_content, str(lock_file))
PutLock(i) ==
    /\ pc[i] = "put_lock"
    /\ LET d == Cur(i) IN
         /\ remote' = Put(remote, LockPath(i, d), Record(i, "lock"))
         /\ hist' = [hist EXCEPT ![i][d].lockPuts = @ + 1]
    /\ pc' = [pc EXCEPT ![i] = "get_log"]
    /\ UNCHANGED <<fixed, stack, raised, log_content,
                   remaining_jobs, progress>>

\* log_msg(msg): the new record goes in front
LogMsg(i, msg, content) == <<Record(i, msg)>> \o content

\* the fetch of sync.log (absent: ""), then log_msg("start sync")
GetLog(i) ==
    /\ pc[i] = "get_log"
    /\ LET d == Cur(i)
           fetched == IF Exists(LogPath(i, d)) THEN remote[LogPath(i, d)] ELSE <<>> IN
         log_content' = [log_content EXCEPT ![i] = LogMsg(i, "start sync", fetched)]
    /\ pc' = [pc EXCEPT ![i] = "submit"]
    /\ UNCHANGED <<fixed, remote, stack, raised, remaining_jobs,
                   progress, hist>>

\* the fetch of sync.log fails with anything but DoesNotExist (the store or the
\* transport fails, the bytes are not UTF-8): the exception leaves sync_context
\* before its try block is entered
GetLogFails(i) ==
    /\ pc[i] = "get_log"
    /\ hist' = [hist EXCEPT ![i][Cur(i)].result = "Error"]
    /\ Raises(i, "Error")
    /\ UNCHANGED <<fixed, remote, log_content, remaining_jobs,
                   progress>>

(***************************************************************************)
(* sync: the upload loop                                                   *)
(***************************************************************************)
\* all_files: every regular file of the directory
AllFiles(d) == localFiles[d]

\* remaining_jobs = {exec.submit(upload, *args): args for args in all_uploads}
Submit(i) ==
    /\ pc[i] = "submit"
    /\ LET d == Cur(i) IN
         /\ remaining_jobs' = [remaining_jobs EXCEPT ![i] =
                                  [f \in AllFiles(d) |-> "running"]]
         /\ hist' = [hist EXCEPT ![i][d].submitted = AllFiles(d)]
    /\ progress' = [progress EXCEPT ![i] = 0]
    /\ pc' = [pc EXCEPT ![i] = "wait"]
    /\ UNCHANGED <<fixed, remote, stack, raised, log_content>>

\* a worker's bucket.upload(path_to_file, remote_path, timeout=5) succeeds
UploadOk(i, f) ==
    /\ pc[i] = "wait"
    /\ f \in DOMAIN remaining_jobs[i]
    /\ remaining_jobs[i][f] = "running"
    /\ LET d == Cur(i) IN
         /\ remote' = Put(remote, RemoteFile(i, d, f), LocalContent(d, f))
         /\ hist' = [hist EXCEPT ![i][d].uploaded = @ \cup {f}]
    /\ remaining_jobs' = [remaining_jobs EXCEPT ![i][f] = "ok"]
    /\ UNCHANGED <<fixed, stack, pc, raised, log_content, progress>>

\* a worker's upload raises (timeout, transport, store): the object may or may
\* not have reached the bucket
UploadFails(i, f) ==
    /\ pc[i] = "wait"
    /\ f \in DOMAIN remaining_jobs[i]
    /\ remaining_jobs[i][f] = "running"
    /\ \E written \in BOOLEAN :
          remote' = IF written
                    THEN Put(remote, RemoteFile(i, Cur(i), f), LocalContent(Cur(i), f))
                    ELSE remote
    /\ remaining_jobs' = [remaining_jobs EXCEPT ![i][f] = "failed"]
    /\ hist' = [hist EXCEPT ![i][Cur(i)].retried = TRUE]
    /\ UNCHANGED <<fixed, stack, pc, raised, log_content, progress>>

\* a loop that drops a failed job instead of submitting it again
RenewedDropsFailed(jobs) ==
    [f \in {g \in DOMAIN jobs : jobs[g] = "running"} |-> "running"]

\* a loop that keeps a failed job without submitting it again
RenewedKeepsFailed(jobs) ==
    [f \in {g \in DOMAIN jobs : jobs[g] # "ok"} |-> jobs[f]]

\* one round of the while loop: a failed job is submitted again, a job that
\* succeeded leaves the dict, a pending job stays
Renewed(jobs) ==
    [f \in {g \in DOMAIN jobs : jobs[g] # "ok"} |-> "running"]

SucceededOrFailed(jobs) == {f \in DOMAIN jobs : jobs[f] # "running"}

Succeeded(jobs) == {f \in DOMAIN jobs : jobs[f] = "ok"}

\* wait(remaining_jobs, return_when=FIRST_COMPLETED) returns
WaitReturns(i) ==
    /\ pc[i] = "wait"
    /\ \E f \in DOMAIN remaining_jobs[i] : remaining_jobs[i][f] # "running"
    /\ progress' = [progress EXCEPT ![i] = @ + Cardinality(Succeeded(remaining_jobs[i]))]
    /\ remaining_jobs' = [remaining_jobs EXCEPT ![i] = Renewed(@)]
    /\ UNCHANGED <<fixed, remote, stack, pc, raised, log_content,
                   hist>>

(***************************************************************************)
(* sync_context: release (the finally block)                               *)
(***************************************************************************)
\* a loop that ends as soon as no job is running
LoopDoneEarly(i) == \A f \in DOMAIN remaining_jobs[i] : remaining_jobs[i][f] # "running"

\* the while loop ends when the dict is empty
LoopDone(i) == DOMAIN remaining_jobs[i] = {}

\* filehandle = bucket.get_file(str(lock_file)): DoesNotExist leaves the
\* finally block
ReleaseGet(i) ==
    /\ pc[i] = "wait"
    /\ LoopDone(i)
    /\ LET d == Cur(i) IN
         IF Exists(LockPath(i, d))
         THEN /\ pc' = [pc EXCEPT ![i] = "delete_lock"]
              /\ UNCHANGED <<stack, raised, hist>>
         ELSE /\ hist' = [hist EXCEPT ![i][d].result = "DoesNotExist"]
              /\ Raises(i, "DoesNotExist")
    /\ UNCHANGED <<fixed, remote, log_content, remaining_jobs,
                   progress>>

\* filehandle.delete().  When another invocation has deleted the marker since
\* get_file, the client either raises or reports nothing: which of the two is
\* a property of the client library, the same for every call
ReleaseDelete(i) ==
    /\ pc[i] = "delete_lock"
    /\ LET d == Cur(i) IN
         IF Exists(LockPath(i, d)) \/ delete_missing = "silent"
         THEN /\ remote' = Delete(remote, LockPath(i, d))
              /\ hist' = [hist EXCEPT ![i][d].lockDels = @ + 1]
              /\ pc' = [pc EXCEPT ![i] = "put_log"]
              /\ UNCHANGED <<stack, raised>>
         ELSE /\ hist' = [hist EXCEPT ![i][d].lockDels = @ + 1,
                                      ![i][d].result = "Error"]
              /\ Raises(i, "Error")
              /\ UNCHANGED remote
    /\ UNCHANGED <<fixed, log_content, remaining_jobs,
                   progress>>

\* log_msg("end sync"); bucket.upload(log_io, str(log_file)); sync returns
PutLog(i) ==
    /\ pc[i] = "put_log"
    /\ LET d == Cur(i)
           final == LogMsg(i, "end sync", log_content[i]) IN
         /\ log_content' = [log_content EXCEPT ![i] = final]
         /\ remote' = Put(remote, LogPath(i, d), final)
         /\ hist' = [hist EXCEPT ![i][d].logPuts = @ + 1,
                                 ![i][d].result = "returned"]
    /\ Returns(i)
    /\ UNCHANGED <<fixed, remaining_jobs, progress>>

(***************************************************************************)
(* Specifications                                                          *)
(***************************************************************************)
Next ==
    \/ \E i \in invs : Descend(i)
    \/ \E i \in invs : Compare(i)
    \/ \E i \in invs : CheckLock(i)
    \/ \E i \in invs : PutLock(i)
    \/ \E i \in invs : GetLog(i)
    \/ \E i \in invs : GetLogFails(i)
    \/ \E i \in invs : Submit(i)
    \/ \E i \in invs : \E f \in FileNames : UploadOk(i, f)
    \/ \E i \in invs : \E f \in FileNames : UploadFails(i, f)
    \/ \E i \in invs : WaitReturns(i)
    \/ \E i \in invs : ReleaseGet(i)
    \/ \E i \in invs : ReleaseDelete(i)
    \/ \E i \in invs : PutLog(i)

\* the steps of invocations that sync a directory without subdirectories
NextLeaf ==
    \/ \E i \in invs : Compare(i)
    \/ \E i \in invs : CheckLock(i)
    \/ \E i \in invs : PutLock(i)
    \/ \E i \in invs : GetLog(i)
    \/ \E i \in invs : GetLogFails(i)
    \/ \E i \in invs : Submit(i)
    \/ \E i \in invs : \E f \in FileNames : UploadOk(i, f)
    \/ \E i \in invs : \E f \in FileNames : UploadFails(i, f)
    \/ \E i \in invs : WaitReturns(i)
    \/ \E i \in invs : ReleaseGet(i)
    \/ \E i \in invs : ReleaseDelete(i)
    \/ \E i \in invs : PutLog(i)

\* the bucket before the first invocation: a stale marker in the directories
\* of locked, the manifest md5 ("none": no manifest) and a log of oldlen records
\* in every directory
Bucket0(locked, md5, oldlen) ==
    LET dom == {JoinPath(Prefix \o d, <<LOCK_FILE>>) : d \in locked}
               \cup (IF md5 = "none" THEN {}
                     ELSE {JoinPath(Prefix \o d, <<MD5_HASH_FILE>>) : d \in Dirs})
               \cup (IF oldlen = 0 THEN {}
                     ELSE {JoinPath(Prefix \o d, <<LOG_FILE>>) : d \in Dirs})
    IN [p \in dom |->
          IF p[Len(p)] = LOCK_FILE THEN Record("old", "lock")
          ELSE IF p[Len(p)] = MD5_HASH_FILE THEN md5
          ELSE [k \in 1..oldlen |-> Record("old", "end sync")]]

\* the invocations of S start at the directories of paths; the other variables
\* are those of processes that have just been started
InitWith(S, paths, forces, lockedSets, hashedSets, md5s, clients) ==
    /\ invs = S
    /\ delete_missing \in clients
    /\ args \in [Inv -> [path : paths, prefix : {Prefix}, relto : {NoPath},
                         force : forces]]
    /\ \A i \in Inv \ S : args[i] = [path |-> CHOOSE p \in paths : TRUE,
                                     prefix |-> Prefix, relto |-> NoPath,
                                     force |-> CHOOSE b \in forces : TRUE]
    /\ \E hashed \in hashedSets :
          localFiles = [d \in Dirs |->
                          IF d \in hashed THEN {DataFile, MD5_HASH_FILE} ELSE {DataFile}]
    /\ \E locked \in lockedSets, md5 \in md5s, oldlen \in 0..MaxOldLog :
          remote = Bucket0(locked, md5, oldlen)
    /\ stack = [i \in Inv |-> IF i \in S THEN <<Frame(args[i].path)>> ELSE <<>>]
    /\ pc = [i \in Inv |-> IF i \in S THEN "walk" ELSE "done"]
    /\ raised = [i \in Inv |-> "none"]
    /\ log_content = [i \in Inv |-> <<>>]
    /\ remaining_jobs = [i \in Inv |-> <<>>]
    /\ progress = [i \in Inv |-> 0]
    /\ hist = [i \in Inv |-> [d \in Dirs |-> NoHist]]
    /\ HashIdle

\* one invocation on the tree
Init == InitWith({"A"}, {Root}, BOOLEAN, {{}, {SubA}, {Root}}, {{}, Dirs},
                 {"none", "M", "M0"}, {"raises"})

Spec == Init /\ [][Next]_vars

\* the steps of invocation i's main thread that do not depend on a failure
Main(i) ==
    \/ Descend(i)
    \/ Compare(i)
    \/ CheckLock(i)
    \/ PutLock(i)
    \/ GetLog(i)
    \/ Submit(i)
    \/ WaitReturns(i)
    \/ ReleaseGet(i)
    \/ ReleaseDelete(i)
    \/ PutLog(i)

\* the main thread keeps running, and an upload that is attempted again and
\* again eventually succeeds
Fairness ==
    \A i \in Inv :
        /\ WF_vars(Main(i))
        /\ \A f \in FileNames : SF_vars(UploadOk(i, f))

SpecLive == Init /\ [][Next]_vars /\ Fairness

\* two invocations on the same leaf directory
InitTwo == InitWith({"A", "B"}, {SubA}, BOOLEAN, {{}, {SubA}}, {{}, Dirs},
                    {"none", "M", "M0"}, {"raises", "silent"})

SpecTwo == InitTwo /\ [][NextLeaf]_vars

\* one invocation on a leaf directory, with or without local_relative_to, whose
\* directory holds a manifest and possibly a backup of an earlier manifest;
\* the bucket holds a stale marker at the lock location or none, and a
\* manifest at the remote manifest path or none
InitOne ==
    /\ invs = {"A"}
    /\ delete_missing = "raises"
    /\ args \in [Inv -> [path : {SubA}, prefix : {Prefix},
                         relto : {NoPath, Base, Root}, force : BOOLEAN]]
    /\ args["B"] = [path |-> SubA, prefix |-> Prefix, relto |-> NoPath,
                    force |-> FALSE]
    /\ \E names \in {{DataFile, MD5_HASH_FILE}, {DataFile, MD5_HASH_FILE, BackupFile}} :
          localFiles = [d \in Dirs |-> names]
    /\ \E locked \in BOOLEAN, md5 \in {"none", "M", "M0"} :
          remote = [p \in (IF locked THEN {LockPath("A", SubA)} ELSE {})
                          \cup (IF md5 = "none" THEN {}
                                ELSE {RemoteFile("A", SubA, MD5_HASH_FILE)}) |->
                       IF p[Len(p)] = LOCK_FILE THEN Record("old", "lock") ELSE md5]
    /\ stack = [i \in Inv |-> IF i = "A" THEN <<Frame(SubA)>> ELSE <<>>]
    /\ pc = [i \in Inv |-> IF i = "A" THEN "walk" ELSE "done"]
    /\ raised = [i \in Inv |-> "none"]
    /\ log_content = [i \in Inv |-> <<>>]
    /\ remaining_jobs = [i \in Inv |-> <<>>]
    /\ progress = [i \in Inv |-> 0]
    /\ hist = [i \in Inv |-> [d \in Dirs |-> NoHist]]
    /\ HashIdle

SpecOne == InitOne /\ [][NextLeaf]_vars

(***************************************************************************)
(* hash/hash.py: hash_fn, ignore_hash and hash_dir on a local file system. *)
(* A path is kept in the form in which the code holds it, relative or      *)
(* absolute; the file system resolves a relative path against cwd.         *)
(***************************************************************************)
MaxTime == 2
MaxRuns == 3

\* f"{...}.bk.{round(time.time())}" for the values of the clock
BackupNames == <<BackupFile, "md5.hash.bk.2", "md5.hash.bk.3", "md5.hash.bk.4">>
BackupName(t) == BackupNames[t]

\* the names of the model, in the order of Python's comparison of str
NameOrder ==
    <<"a", "b", DataFile, MD5_HASH_FILE>> \o BackupNames \o <<"x">>
NameRank(n) == CHOOSE k \in 1..Len(NameOrder) : NameOrder[k] = n

Reverse(seq) == [k \in 1..Len(seq) |-> seq[Len(seq) + 1 - k]]
Rotate(seq) == Tail(Tail(Tail(seq))) \o SubSeq(seq, 1, 3)
\* orders in which a file system may return the names of a directory
ListingOrders == {NameOrder, Reverse(NameOrder), Rotate(NameOrder)}

Wd == <<"/", "w">>
Tree == Wd \o <<"tree">>

DirEntry == [kind |-> "dir"]
File(c) == [kind |-> "file", content |-> c]

Resolve(p) == IF IsAbsolute(p) THEN p ELSE cwd \o p
IsDir(p) == Resolve(p) \in DOMAIN fs /\ fs[Resolve(p)].kind = "dir"
IsFile(p) == Resolve(p) \in DOMAIN fs /\ fs[Resolve(p)].kind = "file"

\* os.listdir(p) on a file system that returns names in the given order
ListDir(p, order) ==
    LET present(n) == Resolve(p) \o <<n>> \in DOMAIN fs
    IN SelectSeq(order, present)

RECURSIVE Insert(_, _)
Insert(n, seq) ==
    IF seq = <<>> THEN <<n>>
    ELSE IF NameRank(n) <= NameRank(Head(seq)) THEN <<n>> \o seq
    ELSE <<Head(seq)>> \o Insert(n, Tail(seq))

Unsorted(seq) == seq

RECURSIVE sorted(_)
sorted(seq) == IF seq = <<>> THEN <<>> ELSE Insert(Head(seq), sorted(Tail(seq)))

\* a value returned, or an exception raised
Ok(v) == [exc |-> "none", val |-> v]
Exc(e) == [exc |-> e, val |-> <<>>]

\* md5(bytes).hexdigest(): the digest stands for the bytes it was made of
md5(bytes) == [md5 |-> bytes]

\* MD5_HASH_FILE in str(path)
ignore_hash(path) ==
    \E k \in 1..Len(path) :
        path[k] = MD5_HASH_FILE \/ \E t \in 1..Len(BackupNames) : path[k] = BackupNames[t]

\* the call filter_fn(path) for the two values hash_fn is given
Filter(filter_fn, path) == IF filter_fn = "ignore_hash" THEN ignore_hash(path) ELSE TRUE

RECURSIVE hash_fn(_, _, _)
RECURSIVE HashChildren(_, _, _, _, _)

\* the loop of hash_fn over the sorted names of a directory; a record of the
\* output is the line "{path_to_file}\t{hashed_val}\n"
HashChildren(path, todo, filter_fn, order, output) ==
    IF todo = <<>> THEN Ok(output)
    ELSE LET f == Head(todo)
             path_to_file == path \o <<f>>
         IN IF filter_fn # "None" /\ ~Filter(filter_fn, path_to_file)
            THEN HashChildren(path, Tail(todo), filter_fn, order, output)
            ELSE LET hashed_val == hash_fn(path_to_file, filter_fn, order)
                 IN IF hashed_val.exc # "none" THEN hashed_val
                    ELSE IF IsDir(path_to_file)
                    THEN Exc("TypeError")     \* md5() of a str
                    ELSE HashChildren(path, Tail(todo), filter_fn, order,
                                      Append(output, [path |-> path_to_file,
                                                      hash |-> hashed_val.val]))

hash_fn(path, filter_fn, order) ==
    IF IsFile(path) THEN Ok(md5(fs[Resolve(path)].content))
    ELSE IF IsDir(path)
    THEN HashChildren(path, sorted(ListDir(path, order)), filter_fn, order, <<>>)
    ELSE Exc("Exception")

\* os.walk(dirpath), top down: the directories Path(dirpath) / dirname in the
\* order in which the loops of hash_dir meet them
RECURSIVE WalkFrom(_, _)
WalkFrom(dirpath, order) ==
    LET isdir(n) == IsDir(dirpath \o <<n>>)
        dirnames == SelectSeq(ListDir(dirpath, order), isdir)
        RECURSIVE Below(_)
        Below(ds) == IF ds = <<>> THEN <<>>
                     ELSE WalkFrom(dirpath \o <<Head(ds)>>, order) \o Below(Tail(ds))
    IN [k \in 1..Len(dirnames) |-> dirpath \o <<dirnames[k]>>] \o Below(dirnames)

HFrame(d) == [directory |-> d, phase |-> "list", sub_directories |-> <<>>, walk |-> <<>>]
HTop == calls[Len(calls)]
SetTop(frame) == [calls EXCEPT ![Len(calls)] = frame]

\* an exception leaves every call of hash_dir
HashRaises(e) ==
    /\ calls' = <<>>
    /\ outcome' = [outcome EXCEPT ![run] = e]

\* hash_dir(directory) is called from outside
HashCall ==
    /\ calls = <<>>
    /\ run < MaxRuns
    /\ run' = run + 1
    /\ calls' = <<HFrame(directory)>>
    /\ UNCHANGED <<fs, cwd, directory, listing, clock, outcome, writes, syncVars>>

\* line 55: the names of the subdirectories
ListSubdirs ==
    /\ calls # <<>>
    /\ HTop.phase = "list"
    /\ IF IsDir(HTop.directory)
       THEN LET isdir(n) == IsDir(HTop.directory \o <<n>>)
            IN /\ calls' = SetTop([HTop EXCEPT
                              !.phase = "recurse",
                              !.sub_directories =
                                  SelectSeq(ListDir(HTop.directory, listing), isdir)])
               /\ UNCHANGED outcome
       ELSE HashRaises("FileNotFoundError")
    /\ UNCHANGED <<fs, cwd, directory, listing, clock, run, writes, syncVars>>

\* lines 56-57: hash_dir(sub_dir), sub_dir being the bare name
RecurseInto ==
    /\ calls # <<>>
    /\ HTop.phase = "recurse"
    /\ HTop.sub_directories # <<>>
    /\ calls' = Append(SetTop([HTop EXCEPT !.sub_directories = Tail(@)]),
                       HFrame(<<Head(HTop.sub_directories)>>))
    /\ UNCHANGED <<fs, cwd, directory, listing, clock, run, outcome, writes, syncVars>>

\* line 59: os.walk(directory)
StartWalk ==
    /\ calls # <<>>
    /\ HTop.phase = "recurse"
    /\ HTop.sub_directories = <<>>
    /\ calls' = SetTop([HTop EXCEPT !.phase = "walk",
                                    !.walk = WalkFrom(HTop.directory, listing)])
    /\ UNCHANGED <<fs, cwd, directory, listing, clock, run, outcome, writes, syncVars>>

\* os.rename(src, dst): dst is replaced when it exists
Rename(files, src, dst) ==
    [q \in (DOMAIN files \ {src}) \cup {dst} |-> IF q = dst THEN files[src] ELSE files[q]]

\* open(p, "w") and write
WriteFile(files, p, c) ==
    [q \in DOMAIN files \cup {p} |-> IF q = p THEN File(c) ELSE files[q]]

\* lines 60-69 for one dirname: hash, back up the old manifest, write the new
WriteManifest ==
    /\ calls # <<>>
    /\ HTop.phase = "walk"
    /\ HTop.walk # <<>>
    /\ LET _dir == Head(HTop.walk)
           hash_val == hash_fn(_dir, "ignore_hash", listing)
           manifest == Resolve(_dir \o <<MD5_HASH_FILE>>)
           backup == Resolve(_dir \o <<BackupName(clock)>>)
           kept == IF manifest \in DOMAIN fs THEN Rename(fs, manifest, backup) ELSE fs
       IN IF hash_val.exc # "none"
          THEN /\ HashRaises(hash_val.exc)
               /\ UNCHANGED <<fs, writes>>
          ELSE /\ fs' = WriteFile(kept, manifest, hash_val.val)
               /\ writes' = [writes EXCEPT ![run] = Put(@, Resolve(_dir), hash_val.val)]
               /\ calls' = SetTop([HTop EXCEPT !.walk = Tail(@)])
               /\ UNCHANGED outcome
    /\ UNCHANGED <<cwd, directory, listing, clock, run, syncVars>>

\* the end of os.walk: hash_dir returns
HashReturn ==
    /\ calls # <<>>
    /\ HTop.phase = "walk"
    /\ HTop.walk = <<>>
    /\ calls' = SubSeq(calls, 1, Len(calls) - 1)
    /\ outcome' = IF Len(calls) = 1 THEN [outcome EXCEPT ![run] = "returned"] ELSE outcome
    /\ UNCHANGED <<fs, cwd, directory, listing, clock, run, writes, syncVars>>

\* a second passes
Tick ==
    /\ clock < MaxTime
    /\ clock' = clock + 1
    /\ UNCHANGED <<fs, cwd, directory, listing, calls, run, outcome, writes, syncVars>>

NextHash ==
    \/ HashCall
    \/ ListSubdirs
    \/ RecurseInto
    \/ StartWalk
    \/ WriteManifest
    \/ HashReturn
    \/ Tick

\* no sync runs
SyncIdle ==
    /\ invs = {}
    /\ delete_missing = "raises"
    /\ args = [i \in Inv |-> [path |-> Root, prefix |-> Prefix, relto |-> NoPath,
                              force |-> FALSE]]
    /\ localFiles = [d \in Dirs |-> {}]
    /\ remote = <<>>
    /\ stack = [i \in Inv |-> <<>>]
    /\ pc = [i \in Inv |-> "done"]
    /\ raised = [i \in Inv |-> "none"]
    /\ log_content = [i \in Inv |-> <<>>]
    /\ remaining_jobs = [i \in Inv |-> <<>>]
    /\ progress = [i \in Inv |-> 0]
    /\ hist = [i \in Inv |-> [d \in Dirs |-> NoHist]]

\* the directories of a tree: the root alone, the root with two leaves, or
\* the root with a subdirectory that has a subdirectory
TreeDirs(shape) ==
    IF shape = "leaf" THEN {Tree}
    ELSE IF shape = "flat" THEN {Tree, Tree \o <<"a">>, Tree \o <<"b">>}
    ELSE {Tree, Tree \o <<"a">>, Tree \o <<"a", "x">>}

\* a tree that was never hashed: one data file in every directory
TreeFs(shape) ==
    [p \in {Wd} \cup TreeDirs(shape) \cup {d \o <<DataFile>> : d \in TreeDirs(shape)} |->
        IF p[Len(p)] = DataFile THEN File("data") ELSE DirEntry]

InitHash ==
    /\ SyncIdle
    /\ \E shape \in {"leaf", "flat", "deep"} : fs = TreeFs(shape)
    /\ \E call \in {<<Wd, <<"tree">>>>, <<Wd, Tree>>, <<Tree, <<>>>>, <<Tree, Tree>>} :
          cwd = call[1] /\ directory = call[2]
    /\ listing \in ListingOrders
    /\ clock = 1
    /\ calls = <<>>
    /\ run = 0
    /\ outcome = [r \in 1..MaxRuns |-> "none"]
    /\ writes = [r \in 1..MaxRuns |-> <<>>]

SpecHash == InitHash /\ [][NextHash]_vars


(***************************************************************************)
(* Properties                                                              *)
(***************************************************************************)
H(i, d) == hist[i][d]

Finished(i) == pc[i] \in {"done", "raised"}

\* i has issued no put and no delete for the directory d
NoWrites(i, d) ==
    /\ H(i, d).lockPuts = 0
    /\ H(i, d).lockDels = 0
    /\ H(i, d).logPuts = 0
    /\ H(i, d).submitted = {}
    /\ H(i, d).uploaded = {}

\* the marker that was in the bucket before the first invocation is still there
StaleMarker(i, d) ==
    /\ Exists(LockPath(i, d))
    /\ remote[LockPath(i, d)] = Record("old", "lock")

\* i is between the write of d's marker and its delete
InScope(i, d) ==
    /\ pc[i] \in {"get_log", "submit", "wait", "delete_lock"}
    /\ Cur(i) = d

\* C1 as stated: a non-forced sync of a directory whose .lock was there all
\* along has, once its own level is over, failed with SyncLocked and issued no
\* put and no delete for the directory.
C1_LockedSyncFails ==
    \A i \in invs : \A d \in Dirs :
        (~args[i].force /\ StaleMarker(i, d) /\ H(i, d).result # "none")
            => (H(i, d).result = "SyncLocked" /\ NoWrites(i, d))

\* C1 amended: when the lock check of a non-forced sync finds .lock, the
\* invocation raises SyncLocked and has issued no put and no delete for the
\* directory.
C1_CheckFindsMarker ==
    \A i \in invs : \A d \in Dirs :
        (~args[i].force /\ H(i, d).chk = "present")
            => /\ H(i, d).result = "SyncLocked"
               /\ pc[i] = "raised"
               /\ raised[i] = "SyncLocked"
               /\ NoWrites(i, d)

C1_Witness ==
    \E i \in invs : \E d \in Dirs :
        /\ ~args[i].force
        /\ H(i, d).chk = "present"
        /\ raised[i] = "SyncLocked"
        /\ StaleMarker(i, d)

\* C2: a non-forced sync that finds the remote manifest equal to the local one
\* skips the directory: no upload is submitted and no lock marker is written.
C2_SkipOnMatch ==
    \A i \in invs : \A d \in Dirs :
        (~args[i].force /\ H(i, d).cmp = "equal")
            => (H(i, d).result = "skipped" /\ H(i, d).chk = "none" /\ NoWrites(i, d))

C2_Witness ==
    \E i \in invs : \E d \in Dirs :
        /\ H(i, d).cmp = "equal"
        /\ H(i, d).result = "skipped"
        /\ pc[i] = "done"

Holds(i, d) ==
    /\ Exists(LockPath(i, d))
    /\ remote[LockPath(i, d)] = Record(i, "lock")

\* C4: once a sync invocation has returned or raised, no .lock that it wrote
\* remains in the bucket.
C4_NoMarkerLeft ==
    \A i \in invs : Finished(i) => \A d \in Dirs : ~Holds(i, d)

\* C5: a sync scope deletes .lock only after every file of the directory has
\* been uploaded successfully; while a job of the batch has not succeeded the
\* invocation is in the upload loop and has issued no delete.
C5_ReleaseAfterUploads ==
    \A i \in invs :
        /\ \A d \in Dirs :
              (H(i, d).lockDels > 0 \/ (pc[i] \in {"delete_lock", "put_log"} /\ Cur(i) = d))
                 => (H(i, d).submitted = AllFiles(d) /\ H(i, d).uploaded = AllFiles(d))
        /\ (\E f \in DOMAIN remaining_jobs[i] : remaining_jobs[i][f] # "ok")
              => (pc[i] = "wait" /\ H(i, Cur(i)).lockDels = 0)

C5_Witness ==
    \E i \in invs : \E d \in Dirs :
        /\ H(i, d).lockDels = 1
        /\ H(i, d).retried
        /\ H(i, d).uploaded = {DataFile, MD5_HASH_FILE}
        /\ ~Exists(LockPath(i, d))

\* C6: under Fairness, a batch that has been submitted is followed by the end
\* of the upload loop, the exit of the scope and the delete of the marker.
C6_BatchTerminates ==
    \A i \in Inv : \A d \in Dirs :
        (pc[i] = "wait" /\ Cur(i) = d)
            ~> (/\ H(i, d).result = "returned"
                /\ H(i, d).lockDels = 1
                /\ ~Exists(LockPath(i, d)))

C6_Witness ==
    \E i \in invs : \E d \in Dirs :
        /\ H(i, d).result = "returned"
        /\ H(i, d).retried
        /\ H(i, d).uploaded = {DataFile, MD5_HASH_FILE}
        /\ progress[i] = 2
        /\ ~Exists(LockPath(i, d))
        /\ pc[i] = "done"

\* C7: two non-forced invocations are inside the scope of the same directory
\* at the same time only when each passed its check on an absent marker and
\* each wrote the marker; the witness is such a state.
C7_OverlapAfterTwoPassedChecks ==
    \A i \in invs : \A j \in invs \ {i} : \A d \in Dirs :
        (/\ ~args[i].force /\ ~args[j].force
         /\ LockPath(i, d) = LockPath(j, d)
         /\ InScope(i, d) /\ InScope(j, d))
            => /\ H(i, d).chk = "absent" /\ H(j, d).chk = "absent"
               /\ H(i, d).lockPuts = 1 /\ H(j, d).lockPuts = 1

C7_BothInside ==
    \E i \in invs : \E j \in invs \ {i} : \E d \in Dirs :
        /\ ~args[i].force /\ ~args[j].force
        /\ LockPath(i, d) = LockPath(j, d)
        /\ H(i, d).chk = "absent" /\ H(j, d).chk = "absent"
        /\ pc[i] = "wait" /\ pc[j] = "wait"
        /\ Cur(i) = d /\ Cur(j) = d
        /\ \E f \in DOMAIN remaining_jobs[i] : remaining_jobs[i][f] = "running"
        /\ \E f \in DOMAIN remaining_jobs[j] : remaining_jobs[j][f] = "running"

\* C8 as stated: whenever an invocation is between acquire and release of a
\* directory's scope, the directory's .lock exists.
C8_MarkerWhileInScope ==
    \A i \in invs : \A d \in Dirs : InScope(i, d) => Exists(LockPath(i, d))

\* C8 amended: whenever an invocation is between acquire and release of a
\* directory's scope and no other invocation has deleted that directory's
\* marker, the directory's .lock exists.
C8_MarkerUnlessDeletedByOther ==
    \A i \in invs : \A d \in Dirs :
        (/\ InScope(i, d)
         /\ \A j \in invs \ {i} :
               LockPath(j, d) = LockPath(i, d) => H(j, d).lockDels = 0)
            => Exists(LockPath(i, d))

C8_Witness ==
    \E i \in invs : \E j \in invs \ {i} : \E d \in Dirs :
        /\ InScope(i, d) /\ InScope(j, d)
        /\ pc[i] = "wait" /\ pc[j] = "delete_lock"
        /\ H(j, d).lockDels = 0
        /\ Exists(LockPath(i, d))

IsSuffix(a, b) ==
    /\ Len(a) <= Len(b)
    /\ SubSeq(b, Len(b) - Len(a) + 1, Len(b)) = a

\* C9: every write of sync.log keeps the content the object held immediately
\* before the write as a suffix.
C9_AppendOnly ==
    [][\A i \in Inv : \A d \in Dirs :
          (LogPath(i, d) \in DOMAIN remote /\ LogPath(i, d) \in DOMAIN remote')
             => IsSuffix(remote[LogPath(i, d)], remote'[LogPath(i, d)])]_vars

\* C10: an invocation starts a directory's own level (comparison, lock,
\* uploads) only when the sync of every immediate subdirectory has returned and
\* its marker is gone; an invocation never has its marker in two directories.
C10_DepthFirst ==
    \A i \in invs :
        /\ \A d \in Dirs :
              H(i, d).cmp # "none"
                 => \A s \in Subdirs(d) :
                       /\ H(i, s).result \in {"skipped", "returned"}
                       /\ ~Holds(i, s)
        /\ Cardinality({d \in Dirs : Holds(i, d)}) <= 1

C10_Witness ==
    \E i \in invs :
        /\ Holds(i, Root)
        /\ pc[i] = "wait"
        /\ \A s \in Subdirs(Root) :
              H(i, s).result = "returned" /\ H(i, s).lockDels = 1

\* C11: no upload is submitted for a backup md5.hash.bk.<timestamp> and no
\* object is put at a backup's remote path.
C11_BackupsNotUploaded ==
    \A i \in invs : \A d \in Dirs :
        /\ BackupFile \notin H(i, d).submitted
        /\ ~Exists(RemoteFile(i, d, BackupFile))

\* the directories of the tree that hash_dir is called on
HashedDirs ==
    {p \in DOMAIN fs : /\ fs[p].kind = "dir"
                       /\ Len(p) >= Len(Tree)
                       /\ SubSeq(p, 1, Len(Tree)) = Tree}

\* the children of directory p that are neither md5.hash nor a backup of it
DataChildren(p) ==
    {n \in {NameOrder[k] : k \in 1..Len(NameOrder)} :
        p \o <<n>> \in DOMAIN fs /\ ~ignore_hash(<<n>>)}

\* the names of the children that manifest text m has a record for
Recorded(m) == {m[k].path[Len(m[k].path)] : k \in 1..Len(m)}

\* C12: a directory that hash_dir writes a manifest for in two successive runs
\* on a tree whose data files are unchanged gets the same manifest content in
\* the second run as in the first.
C12_Idempotent ==
    \A r \in 1..(MaxRuns - 1) :
        (outcome[r] = "returned" /\ outcome[r + 1] = "returned")
            => \A d \in DOMAIN writes[r] \cap DOMAIN writes[r + 1] :
                  writes[r + 1][d] = writes[r][d]

\* C13: a manifest that hash_dir writes for a directory has a record for every
\* data child of the directory and none for md5.hash or a backup of it.
C13_ManifestOfDataChildren ==
    \A r \in 1..MaxRuns : \A d \in DOMAIN writes[r] :
        Recorded(writes[r][d]) = DataChildren(d)

C16_ManifestEverywhere ==
    \A r \in 1..MaxRuns :
        outcome[r] = "returned" => \A d \in HashedDirs : d \in DOMAIN writes[r]

\* C15: an invocation that has entered the scope of a directory (its uploads
\* were submitted) and has returned or raised has deleted the marker and has
\* written sync.log once, also when another invocation works on the directory.
C15_ScopeEndsWithLog ==
    \A i \in invs : \A d \in Dirs :
        (Finished(i) /\ H(i, d).submitted # {})
            => (H(i, d).lockDels = 1 /\ H(i, d).logPuts = 1)

\* C17: the directory that holds .lock and sync.log of a local directory is
\* the remote directory that receives the directory's files and manifest.
C17_LockAtRemoteDirectory ==
    \A i \in invs : \A d \in Dirs :
        H(i, d).lockPuts > 0
            => /\ LockDir(i, d) = RemoteDir(i, d)
               /\ \A f \in AllFiles(d) :
                     SubSeq(RemoteFile(i, d, f), 1, Len(LockDir(i, d))) = LockDir(i, d)

\* C18: when a non-forced sync skips a directory on a manifest that another
\* invocation's batch has put (that invocation found no remote manifest),
\* every local file of the directory is in the bucket with its local content.
C18_SkipImpliesUploaded ==
    \A i \in invs : \A j \in invs \ {i} : \A d \in Dirs :
        (/\ H(i, d).result = "skipped"
         /\ H(j, d).cmp = "absent"
         /\ RemoteDir(j, d) = RemoteDir(i, d))
            => \A f \in AllFiles(d) :
                  /\ Exists(RemoteFile(i, d, f))
                  /\ remote[RemoteFile(i, d, f)] = LocalContent(d, f)

UploadsRemain(i, d) ==
    \A f \in AllFiles(d) : Exists(RemoteFile(i, d, f))

\* the walk of invocation i ended at subdirectory s with SyncLocked: nothing
\* was done for the parent or for a subdirectory not yet visited, and what
\* was uploaded before is still there
AbortedAt(i, s) ==
    /\ pc[i] = "raised"
    /\ raised[i] = "SyncLocked"
    /\ H(i, s).result = "SyncLocked"
    /\ H(i, Root).cmp = "none" /\ H(i, Root).chk = "none" /\ NoWrites(i, Root)
    /\ \A t \in Subdirs(Root) \ {s} :
          /\ H(i, t).result \in {"none", "skipped", "returned"}
          /\ H(i, t).result = "none"
                => (H(i, t).cmp = "none" /\ H(i, t).chk = "none" /\ NoWrites(i, t))
          /\ H(i, t).result = "returned" => UploadsRemain(i, t)

\* C20 as stated: once a non-forced sync of the tree has been through a
\* subdirectory whose .lock was there all along, it has raised SyncLocked
\* and has done nothing for the parent or for the subdirectories not yet
\* visited.
C20_LockedSubdirAborts ==
    \A i \in invs : \A s \in Subdirs(Root) :
        (~args[i].force /\ StaleMarker(i, s) /\ H(i, s).result # "none")
            => AbortedAt(i, s)

\* C20 amended: when the lock check of a subdirectory finds .lock in a
\* non-forced sync of the tree, SyncLocked leaves the outermost call; nothing
\* is uploaded and no marker written for the parent or for a subdirectory not
\* yet visited; the uploads of the subdirectories synced before remain.
C20_CheckFindsMarkerAborts ==
    \A i \in invs : \A s \in Subdirs(Root) :
        (~args[i].force /\ H(i, s).chk = "present") => AbortedAt(i, s)

C20_Witness ==
    \E i \in invs :
        /\ ~args[i].force
        /\ H(i, SubA).chk = "present"
        /\ raised[i] = "SyncLocked"
        /\ H(i, SubB).result = "returned"
        /\ UploadsRemain(i, SubB)
        /\ NoWrites(i, Root)

====
